---- MODULE Spec2Model ----
(***************************************************************************)
(* A model of the chat agent's server side: the two flat-file stores       *)
(* (storage.ts), the tool dispatcher with the HTML patch editor and the    *)
(* agent loop (agent.ts).                                                  *)
(*                                                                         *)
(* Conventions.  A JSON value is written as its JSON text ("0", "false",   *)
(* "\"\"", "null", "\"v\""); a JavaScript `undefined` is UNDEFINED.  A     *)
(* template string is the tuple of its pieces.  A timestamp is the         *)
(* millisecond reading of the clock; Date.now() keeps it as a number and   *)
(* toISOString() wraps it ([iso |-> t]), which is injective and keeps the  *)
(* order.  An HTML text is a sequence of characters.                       *)
(***************************************************************************)
EXTENDS Integers, Sequences, FiniteSets, TLC

\* ------------------------------------------------------------------ bounds

\* Clock readings are 0..MaxClock.
MaxClock == 1
\* The document list holds at most MaxDocs documents.
MaxDocs == 2

\* A transcript passed to runAgent holds at most MaxIncoming messages.
MaxIncoming == 2
\* An assistant turn requests at most MaxToolCalls tool calls.
MaxToolCalls == 2
\* The model is followed through at most MaxRounds turns that request tool
\* calls when a turn may request any of the tools, and through at most
\* MaxLoopRounds such turns when the turns are followed from round to round.
MaxRounds == 1
MaxLoopRounds == 2

\* ------------------------------------------------------------------ inputs

Keys == {"k1", "k2"}
\* JSON values a caller may store: the four falsy ones and a truthy one.
JsonValues == {"0", "false", "\"\"", "null", "\"v\""}
UNDEFINED == "undefined"
JsNull == "null"
\* Characters of an HTML text; a text holding "x" is one the parser rejects.
Html == {<<"a">>, <<"a", "b">>, <<"x">>, <<"a", "x">>}
Clock == 0..MaxClock
\* Keys and values the write tool is called with.
ToolKeys == {"k1"}
ToolValues == {"\"v\"", "\"\""}
\* Contents the callers of the Document Store pass.
Contents == {<<"a">>, <<"x">>}

\* ------------------------------------------------------------------ state

VARIABLES
  memoryData,     \* storage.ts: let memoryData (key -> JSON value | undefined)
  memoryFile,     \* contents of data/storage/memory.json
  htmlDocuments,  \* storage.ts: let htmlDocuments (the list, in insertion order)
  htmlDocsFile,   \* contents of data/storage/html-docs.json
  now,            \* the last reading of the system clock
  last,           \* the call that ran last: its arguments, its result, what it followed
  dmpLossy,       \* the texts on which the diff library's patch_apply places no patch
  exec,           \* the executeTool call in progress, or the one that ended last
  agent,          \* the runAgent invocation: where it stands and its locals
  peer            \* the executeTool call in progress for a second, concurrent request

storeVars == <<memoryData, memoryFile, htmlDocuments, htmlDocsFile, now>>

\* ------------------------------------------------------------ storage.ts

\* JavaScript truthiness of a JSON value (or undefined).
Truthy(v) == v \notin {UNDEFINED, "null", "0", "false", "\"\""}

\* new Date().toISOString() of a clock reading.
ToISOString(t) == [iso |-> t]

\* `doc-${Date.now()}`
DocId(t) == <<"doc-", t>>

\* What get and update return for an id no document has.
NullDoc == [null |-> TRUE]

\* memoryStorage.read: memoryData[key] || null
memoryStorage_read(md, key) == IF Truthy(md[key]) THEN md[key] ELSE JsNull

\* memoryStorage.write: memoryData[key] = value
memoryStorage_write(md, key, value) == [md EXCEPT ![key] = value]

\* memoryStorage.getAll: { ...memoryData }, the own properties of memoryData
memoryStorage_getAll(md) ==
  [k \in {k \in DOMAIN md : md[k] # UNDEFINED} |-> md[k]]

\* JSON.stringify(memoryData, null, 2) as written to memoryFile
StringifyMemory(md) == memoryStorage_getAll(md)

\* The document create builds from its three clock readings.
NewDoc(content, tId, tCreated, tUpdated) ==
  [id |-> DocId(tId), content |-> content,
   createdAt |-> ToISOString(tCreated), updatedAt |-> ToISOString(tUpdated)]

\* htmlDocuments.push(doc)
htmlDocumentStorage_create(docs, doc) == Append(docs, doc)

\* Array.prototype.find: the index of the first document with this id, 0 if none.
FindIndex(docs, id) ==
  IF \E i \in 1..Len(docs) : docs[i].id = id
  THEN CHOOSE i \in 1..Len(docs) :
         /\ docs[i].id = id
         /\ \A j \in 1..(i - 1) : docs[j].id # id
  ELSE 0

\* htmlDocumentStorage.get: htmlDocuments.find(doc => doc.id === id) || null
htmlDocumentStorage_get(docs, id) ==
  IF FindIndex(docs, id) = 0 THEN NullDoc ELSE docs[FindIndex(docs, id)]

\* htmlDocumentStorage.getAll: [...htmlDocuments], a new array of the same
\* document objects.  A document object is named by its place in the list (the
\* list only grows, and update assigns to the object in place).
htmlDocumentStorage_getAll(docs) == [i \in 1..Len(docs) |-> i]

\* What a holder of document objects reads through them now.
Deref(refs, docs) == [i \in 1..Len(refs) |-> docs[refs[i]]]

\* A slip update could make: inserting the document when the id is not found.
htmlDocumentStorage_update_upsert(docs, id, content, t) ==
  LET i == FindIndex(docs, id)
      d == IF i = 0 THEN [id |-> id, content |-> content,
                          createdAt |-> ToISOString(t), updatedAt |-> ToISOString(t)]
           ELSE [docs[i] EXCEPT !.content = content, !.updatedAt = ToISOString(t)]
  IN [docs |-> IF i = 0 THEN Append(docs, d) ELSE [docs EXCEPT ![i] = d],
      ret |-> d, wrote |-> TRUE]

\* A slip update could make: stamping the document as if it were new.
htmlDocumentStorage_update_restamp(docs, id, content, t) ==
  LET i == FindIndex(docs, id) IN
  IF i = 0 THEN [docs |-> docs, ret |-> NullDoc, wrote |-> FALSE]
  ELSE LET d == [docs[i] EXCEPT !.content = content,
                                !.createdAt = ToISOString(t),
                                !.updatedAt = ToISOString(t)]
       IN [docs |-> [docs EXCEPT ![i] = d], ret |-> d, wrote |-> TRUE]

\* htmlDocumentStorage.update with the clock reading t: the list afterwards, the
\* value returned and whether html-docs.json was rewritten.  `if (!doc) return
\* null` comes before any assignment or file write; on a found document content
\* and updatedAt are assigned in place.
htmlDocumentStorage_update(docs, id, content, t) ==
  LET i == FindIndex(docs, id) IN
  IF i = 0 THEN [docs |-> docs, ret |-> NullDoc, wrote |-> FALSE]
  ELSE LET d == [docs[i] EXCEPT !.content = content, !.updatedAt = ToISOString(t)]
       IN [docs |-> [docs EXCEPT ![i] = d], ret |-> d, wrote |-> TRUE]

\* ------------------------------------------------------------------ Init

NoCall == [op |-> "none"]

StoreInit ==
  /\ memoryData = [k \in Keys |-> UNDEFINED]
  /\ memoryFile = StringifyMemory(memoryData)
  /\ htmlDocuments = <<>>
  /\ htmlDocsFile = <<>>
  /\ now = 0

\* No executeTool call yet.
Idle == [pc |-> "idle"]
\* No runAgent invocation yet.
NotRunning == [pc |-> "idle"]

Init ==
  /\ StoreInit
  /\ last = NoCall
  /\ dmpLossy = {}
  /\ exec = Idle
  /\ agent = NotRunning
  /\ peer = Idle

\* ------------------------------------------------- the store's operations

\* The call that ran just before, when it was an `op`; NoCall otherwise.
Preceding(op) == IF last.op = op THEN [last EXCEPT !.after = NoCall] ELSE NoCall

\* The getAll of the documents whose result a caller still holds while it
\* goes on to create and update: the one these calls have followed.
HeldGetAll ==
  IF last.op = "getAllDocs" THEN last
  ELSE IF last.op \in {"create", "update"} THEN last.after
  ELSE NoCall

MemoryRead(key) ==
  /\ last' = [op |-> "read", key |-> key, after |-> Preceding("write"),
              ret |-> memoryStorage_read(memoryData, key)]
  /\ UNCHANGED <<storeVars, dmpLossy, exec, agent, peer>>

MemoryWrite(key, value) ==
  /\ memoryData' = memoryStorage_write(memoryData, key, value)
  /\ memoryFile' = StringifyMemory(memoryData')
  /\ last' = [op |-> "write", key |-> key, value |-> value, after |-> NoCall]
  /\ UNCHANGED <<htmlDocuments, htmlDocsFile, now, dmpLossy, exec, agent, peer>>

MemoryGetAll ==
  /\ last' = [op |-> "getAllMemory", after |-> Preceding("write"),
              ret |-> memoryStorage_getAll(memoryData)]
  /\ UNCHANGED <<storeVars, dmpLossy, exec, agent, peer>>

\* create as a step of whoever calls it.  The clock is read three times
\* (Date.now(), new Date(), new Date()) and may advance between the readings.
StoreCreate(content, doc) ==
  /\ Len(htmlDocuments) < MaxDocs
  /\ \E tId \in Clock, tCreated \in Clock, tUpdated \in Clock :
       /\ now <= tId /\ tId <= tCreated /\ tCreated <= tUpdated
       /\ doc = NewDoc(content, tId, tCreated, tUpdated)
       /\ htmlDocuments' = htmlDocumentStorage_create(htmlDocuments, doc)
       /\ htmlDocsFile' = htmlDocuments'
       /\ now' = tUpdated

\* The documents a create of this content can return now.
CreatedDocs(content) ==
  {NewDoc(content, t[1], t[2], t[3]) : t \in Clock \X Clock \X Clock}

DocCreate(content) ==
  /\ \E doc \in CreatedDocs(content) :
       /\ StoreCreate(content, doc)
       /\ last' = [op |-> "create", content |-> content, after |-> HeldGetAll,
                   ret |-> doc]
  /\ UNCHANGED <<memoryData, memoryFile, dmpLossy, exec, agent, peer>>

DocGet(id) ==
  /\ last' = [op |-> "get", id |-> id, after |-> Preceding("create"),
              ret |-> htmlDocumentStorage_get(htmlDocuments, id)]
  /\ UNCHANGED <<storeVars, dmpLossy, exec, agent, peer>>

\* update as a step of whoever calls it, with the clock reading t: it reads
\* the clock (new Date()) only for a document it found.
StoreUpdate(id, content, t) ==
  /\ now <= t
  /\ FindIndex(htmlDocuments, id) = 0 => t = now
  /\ htmlDocuments' = htmlDocumentStorage_update(htmlDocuments, id, content, t).docs
  /\ htmlDocsFile' =
       IF htmlDocumentStorage_update(htmlDocuments, id, content, t).wrote
       THEN htmlDocuments' ELSE htmlDocsFile
  /\ now' = t

DocUpdate(id, content) ==
  /\ \E t \in Clock :
       /\ StoreUpdate(id, content, t)
       /\ last' = [op |-> "update", id |-> id, content |-> content,
                   after |-> HeldGetAll, at |-> t,
                   index |-> FindIndex(htmlDocuments, id),
                   ret |-> htmlDocumentStorage_update(htmlDocuments, id, content, t).ret,
                   wrote |-> htmlDocumentStorage_update(htmlDocuments, id, content, t).wrote,
                   docsBefore |-> htmlDocuments, fileBefore |-> htmlDocsFile]
  /\ UNCHANGED <<memoryData, memoryFile, dmpLossy, exec, agent, peer>>

\* getAll of the documents: the array returned, and what it showed then.
DocGetAll ==
  /\ last' = [op |-> "getAllDocs", after |-> NoCall,
              ret |-> htmlDocumentStorage_getAll(htmlDocuments),
              seen |-> Deref(htmlDocumentStorage_getAll(htmlDocuments), htmlDocuments)]
  /\ UNCHANGED <<storeVars, dmpLossy, exec, agent, peer>>

\* Ids a caller may pass: every id a create can give out, and one it cannot.
Ids == {DocId(t) : t \in 0..(MaxClock + 1)}

vars == <<memoryData, memoryFile, htmlDocuments, htmlDocsFile, now, last,
          dmpLossy, exec, agent, peer>>

\* Callers of the Key-Value Store.
NextMemory ==
  \/ \E key \in Keys : MemoryRead(key)
  \/ \E key \in Keys, value \in JsonValues : MemoryWrite(key, value)
  \/ MemoryGetAll

SpecMemory == Init /\ [][NextMemory]_vars

\* Callers of the Document Store.
NextDocs ==
  \/ \E content \in Contents : DocCreate(content)
  \/ \E id \in Ids : DocGet(id)
  \/ \E id \in Ids, content \in Contents : DocUpdate(id, content)
  \/ DocGetAll

SpecDocs == Init /\ [][NextDocs]_vars

\* ---------------------------------------------- agent.ts: the patch editor

\* A reply of the generation capability to one request: a failure (the call
\* throws) or a message whose content may come wrapped in a markdown fence.
LlmFailure == [ok |-> FALSE, message |-> "request failed"]
LlmContents == {[ok |-> TRUE, fenced |-> f, body |-> h] : f \in BOOLEAN, h \in Html}
LlmReplies == {LlmFailure} \cup LlmContents

\* content.replace(/^```html\n?/i, '').replace(/^```\n?/i, '')
\*        .replace(/\n?```$/i, '').trim(): the text inside the fence, if any.
StripFences(reply) == reply.body

RECURSIVE CommonPrefixLength(_, _)
CommonPrefixLength(a, b) ==
  IF a = <<>> \/ b = <<>> \/ Head(a) # Head(b) THEN 0
  ELSE 1 + CommonPrefixLength(Tail(a), Tail(b))

Reverse(text) == [i \in 1..Len(text) |-> text[Len(text) + 1 - i]]

CommonSuffixLength(a, b) == CommonPrefixLength(Reverse(a), Reverse(b))

\* diff_main + patch_make on two different texts: one patch that deletes and
\* inserts between the common prefix and the common suffix.
MakeHunk(text1, text2) ==
  LET p == CommonPrefixLength(text1, text2)
      rest1 == SubSeq(text1, p + 1, Len(text1))
      rest2 == SubSeq(text2, p + 1, Len(text2))
      q == CommonSuffixLength(rest1, rest2)
  IN [start |-> p,
      del |-> SubSeq(rest1, 1, Len(rest1) - q),
      ins |-> SubSeq(rest2, 1, Len(rest2) - q)]

\* generatePatch: the list of patches (empty for equal texts), as patch_toText
\* writes it and patch_fromText reads it back.
generatePatch(original, modified) ==
  IF original = modified THEN <<>> ELSE <<MakeHunk(original, modified)>>

\* One patch placed on the text.
ApplyHunk(text, hunk) ==
  SubSeq(text, 1, hunk.start) \o hunk.ins
    \o SubSeq(text, hunk.start + Len(hunk.del) + 1, Len(text))

\* patch_apply: each patch is placed or, when the library finds no place for
\* it (its success flag is false), left out.
RECURSIVE patch_apply(_, _, _)
patch_apply(patches, text, placed) ==
  IF patches = <<>> THEN text
  ELSE patch_apply(Tail(patches),
                   IF placed THEN ApplyHunk(text, Head(patches)) ELSE text,
                   placed)

\* applyPatch: the text patch_apply gives, whatever the success flags (a
\* false flag is only warned about).
applyPatch(original, patchText, lossy) ==
  patch_apply(patchText, original, original \notin lossy)

\* Texts on which patch_apply may fail to place a patch: one that parses and
\* one that does not.  Which of them it fails on is fixed for a run.
LossyTexts == {<<"a">>, <<"x">>}

\* parse(htmlString) of node-html-parser throws on this text.
ParseThrows(htmlString) == \E i \in 1..Len(htmlString) : htmlString[i] = "x"

ParseError == "parse error"

\* validateHtml
validateHtml(htmlString) ==
  IF ParseThrows(htmlString) THEN [valid |-> FALSE, error |-> ParseError]
  ELSE [valid |-> TRUE]

\* A slip the editor could make: returning the raw edited text whether or not
\* it parses.
editHtmlWithLLM_unchecked(originalHtml, reply, lossy) ==
  IF ~reply.ok THEN [ok |-> FALSE, message |-> reply.message]
  ELSE [ok |-> TRUE, updatedHtml |-> StripFences(reply),
        patch |-> generatePatch(originalHtml, StripFences(reply))]

\* A slip the editor could make: returning the raw edited text on the path
\* whose candidate parsed.
editHtmlWithLLM_raw(originalHtml, reply, lossy) ==
  IF ~reply.ok THEN [ok |-> FALSE, message |-> reply.message]
  ELSE
    LET edited == StripFences(reply)
        patch == generatePatch(originalHtml, edited)
        finalHtml == applyPatch(originalHtml, patch, lossy)
    IN IF validateHtml(finalHtml).valid \/ validateHtml(edited).valid
       THEN [ok |-> TRUE, updatedHtml |-> edited, patch |-> patch]
       ELSE [ok |-> FALSE,
             message |-> <<"HTML validation failed: ",
                           validateHtml(finalHtml).error>>]

\* editHtmlWithLLM, given the reply to its generation request: what it returns
\* (ok) or the message of the error it throws.
editHtmlWithLLM(originalHtml, reply, lossy) ==
  IF ~reply.ok THEN [ok |-> FALSE, message |-> reply.message]
  ELSE
    LET edited == StripFences(reply)
        patch == generatePatch(originalHtml, edited)
        finalHtml == applyPatch(originalHtml, patch, lossy)
    IN IF ~validateHtml(finalHtml).valid
       THEN IF validateHtml(edited).valid
            THEN [ok |-> TRUE, updatedHtml |-> edited, patch |-> patch]
            ELSE [ok |-> FALSE,
                  message |-> <<"HTML validation failed: ",
                                validateHtml(finalHtml).error>>]
       ELSE [ok |-> TRUE, updatedHtml |-> finalHtml, patch |-> patch]

\* ------------------------------------------------ agent.ts: executeTool

ToolCatalog ==
  {"read_business_profile", "read_long_term_memory", "write_long_term_memory",
   "create_html_document", "edit_html_document", "list_html_documents",
   "generate_html_with_llm"}
\* Names the dispatcher has no case for.
UnknownTools == {"delete_html_document", "read_memory"}
ToolNames == ToolCatalog \cup UnknownTools

businessProfile == [name |-> "TechCorp Solutions"]
fakeMemoryStory == "This is long-term memory for TechCorp Solutions. ..."
Instructions == {"make it blue"}

\* The argument object {}.
EmptyArgs == [none |-> TRUE]

\* The argument objects a caller passes with each tool name.
ArgsFor(toolName) ==
  CASE toolName \in {"read_long_term_memory"} -> {[key |-> k] : k \in Keys}
    [] toolName = "write_long_term_memory" ->
         {[key |-> k, value |-> v] : k \in ToolKeys, v \in ToolValues}
    [] toolName = "create_html_document" -> {[content |-> c] : c \in Contents}
    [] toolName = "edit_html_document" ->
         {[documentId |-> id, editDescription |-> d] : id \in Ids, d \in Instructions}
    [] toolName = "generate_html_with_llm" ->
         {[description |-> d] : d \in Instructions}
    [] OTHER -> {EmptyArgs}

\* The stores as the call found them.
Before ==
  [memoryData |-> memoryData, memoryFile |-> memoryFile,
   htmlDocuments |-> htmlDocuments, htmlDocsFile |-> htmlDocsFile]

NoEdit == [ran |-> FALSE]

\* executeTool's promise resolves with JSON.stringify(result).
Returned(toolName, args, result, llmCalls, edit, before) ==
  [pc |-> "done", name |-> toolName, args |-> args, outcome |-> "returned",
   result |-> result, llmCalls |-> llmCalls, edit |-> edit, before |-> before]

\* executeTool's promise rejects with an error.
Thrown(toolName, args, message, llmCalls, edit, before) ==
  [pc |-> "done", name |-> toolName, args |-> args, outcome |-> "thrown",
   result |-> message, llmCalls |-> llmCalls, edit |-> edit, before |-> before]

\* A slip the dispatcher could make: raising on a name it does not know.
UnknownToolResult_throws(toolName, args) ==
  Thrown(toolName, args, <<"Unknown tool: ", toolName>>, 0, NoEdit, Before)

\* default: return JSON.stringify({ error: `Unknown tool: ${toolName}` })
UnknownToolResult(toolName, args) ==
  Returned(toolName, args, [error |-> <<"Unknown tool: ", toolName>>], 0,
           NoEdit, Before)

CanStart == exec.pc \in {"idle", "done"}

ReadBusinessProfile(args) ==
  /\ exec' = Returned("read_business_profile", args, businessProfile, 0, NoEdit, Before)
  /\ UNCHANGED storeVars

ReadLongTermMemory(args) ==
  /\ exec' =
       IF Truthy(memoryStorage_read(memoryData, args.key))
       THEN Returned("read_long_term_memory", args,
                     [key |-> args.key,
                      value |-> memoryStorage_read(memoryData, args.key)],
                     0, NoEdit, Before)
       ELSE Returned("read_long_term_memory", args,
                     [key |-> args.key, value |-> fakeMemoryStory,
                      message |-> "Long-term memory accessed successfully. ..."],
                     0, NoEdit, Before)
  /\ UNCHANGED storeVars

WriteLongTermMemory(args) ==
  /\ memoryData' = memoryStorage_write(memoryData, args.key, args.value)
  /\ memoryFile' = StringifyMemory(memoryData')
  /\ exec' = Returned("write_long_term_memory", args,
                      [success |-> TRUE,
                       message |-> <<"Stored value for key: ", args.key>>],
                      0, NoEdit, Before)
  /\ UNCHANGED <<htmlDocuments, htmlDocsFile, now>>

CreateHtmlDocument(args) ==
  /\ \E newDoc \in CreatedDocs(args.content) :
       /\ StoreCreate(args.content, newDoc)
       /\ exec' = Returned("create_html_document", args,
                           [success |-> TRUE, document |-> newDoc,
                            message |-> <<"Created HTML document with ID: ", newDoc.id>>],
                           0, NoEdit, Before)
  /\ UNCHANGED <<memoryData, memoryFile>>

\* edit_html_document up to its await, as it leaves the call: returned with
\* "not found", or waiting for the editor's request with the content it read.
EditStarted(args) ==
  IF htmlDocumentStorage_get(htmlDocuments, args.documentId) = NullDoc
  THEN Returned("edit_html_document", args,
                [success |-> FALSE,
                 message |-> <<"Document with ID ", args.documentId, " not found">>],
                0, NoEdit, Before)
  ELSE [pc |-> "await_edit", name |-> "edit_html_document", args |-> args,
        originalHtml |->
          htmlDocumentStorage_get(htmlDocuments, args.documentId).content,
        before |-> Before]

\* edit_html_document up to its await: the lookup, then the editor's request.
EditHtmlDocument(args) ==
  /\ exec' = EditStarted(args)
  /\ UNCHANGED storeVars

\* What the editor did in a call that has its reply.
EditRun(call, reply) ==
  [ran |-> TRUE, originalHtml |-> call.originalHtml,
   replied |-> reply.ok,
   edited |-> IF reply.ok THEN StripFences(reply) ELSE <<>>,
   ret |-> editHtmlWithLLM(call.originalHtml, reply, dmpLossy)]

\* A slip the edit could make: storing its result only when the document
\* still has the content the edit was computed from.
EditStored_unlessChanged(call, reply, t) ==
  LET edit == editHtmlWithLLM(call.originalHtml, reply, dmpLossy) IN
  IF edit.ok /\ htmlDocumentStorage_get(htmlDocuments, call.args.documentId).content
                  = call.originalHtml
  THEN StoreUpdate(call.args.documentId, edit.updatedHtml, t)
  ELSE t = now /\ UNCHANGED <<htmlDocuments, htmlDocsFile, now>>

\* edit_html_document from the reply on, on the store: the editor's result is
\* stored by update, with the clock reading t; an error of the editor stores
\* nothing.
EditStored(call, reply, t) ==
  LET edit == editHtmlWithLLM(call.originalHtml, reply, dmpLossy) IN
  IF edit.ok
  THEN StoreUpdate(call.args.documentId, edit.updatedHtml, t)
  ELSE t = now /\ UNCHANGED <<htmlDocuments, htmlDocsFile, now>>

\* edit_html_document from the reply on, as it leaves the call: the updated
\* document is returned, or the editor's error is caught and returned.
EditReturns(call, reply, t) ==
  LET edit == editHtmlWithLLM(call.originalHtml, reply, dmpLossy)
      ran == EditRun(call, reply)
  IN IF edit.ok
     THEN LET updatedDoc ==
                htmlDocumentStorage_update(htmlDocuments, call.args.documentId,
                                           edit.updatedHtml, t).ret
          IN IF updatedDoc = NullDoc
             THEN Returned(call.name, call.args,
                           [success |-> FALSE,
                            message |-> <<"Failed to update document with ID ",
                                          call.args.documentId>>],
                           1, ran, call.before)
             ELSE Returned(call.name, call.args,
                           [success |-> TRUE, document |-> updatedDoc,
                            message |-> <<"Updated HTML document with ID: ",
                                          call.args.documentId,
                                          ". Made the requested change: ",
                                          call.args.editDescription>>],
                           1, ran, call.before)
     ELSE Returned(call.name, call.args,
                   [success |-> FALSE,
                    message |-> <<"Error editing document: ", edit.message>>],
                   1, ran, call.before)

\* edit_html_document from the reply on.
EditHtmlDocumentResume(reply) ==
  /\ exec.pc = "await_edit"
  /\ \E t \in Clock :
       /\ EditStored(exec, reply, t)
       /\ exec' = EditReturns(exec, reply, t)
  /\ UNCHANGED <<memoryData, memoryFile>>

ListHtmlDocuments(args) ==
  /\ exec' = Returned("list_html_documents", args,
                      [documents |->
                         [i \in 1..Len(htmlDocuments) |->
                            [id |-> htmlDocuments[i].id,
                             createdAt |-> htmlDocuments[i].createdAt,
                             updatedAt |-> htmlDocuments[i].updatedAt]]],
                      0, NoEdit, Before)
  /\ UNCHANGED storeVars

\* generate_html_with_llm up to its await.
GenerateHtmlWithLlm(args) ==
  /\ Len(htmlDocuments) < MaxDocs
  /\ exec' = [pc |-> "await_generate", name |-> "generate_html_with_llm",
              args |-> args, before |-> Before]
  /\ UNCHANGED storeVars

\* generate_html_with_llm from the reply on; no try encloses the request.
GenerateHtmlWithLlmResume(reply) ==
  /\ exec.pc = "await_generate"
  /\ IF reply.ok
     THEN \E generatedDoc \in CreatedDocs(StripFences(reply)) :
            /\ StoreCreate(StripFences(reply), generatedDoc)
            /\ exec' = Returned(exec.name, exec.args,
                                [success |-> TRUE, document |-> generatedDoc,
                                 message |->
                                   <<"Generated and created HTML document with ID: ",
                                     generatedDoc.id>>],
                                1, NoEdit, exec.before)
     ELSE /\ exec' = Thrown(exec.name, exec.args, reply.message, 1, NoEdit, exec.before)
          /\ UNCHANGED <<htmlDocuments, htmlDocsFile, now>>
  /\ UNCHANGED <<memoryData, memoryFile>>

UnknownTool(toolName, args) ==
  /\ exec' = UnknownToolResult(toolName, args)
  /\ UNCHANGED storeVars

\* executeTool(toolName, args): the switch on the name.
executeTool(toolName, args) ==
  CASE toolName = "read_business_profile" -> ReadBusinessProfile(args)
    [] toolName = "read_long_term_memory" -> ReadLongTermMemory(args)
    [] toolName = "write_long_term_memory" -> WriteLongTermMemory(args)
    [] toolName = "create_html_document" -> CreateHtmlDocument(args)
    [] toolName = "edit_html_document" -> EditHtmlDocument(args)
    [] toolName = "list_html_documents" -> ListHtmlDocuments(args)
    [] toolName = "generate_html_with_llm" -> GenerateHtmlWithLlm(args)
    [] OTHER -> UnknownTool(toolName, args)

\* A caller of executeTool: one call at a time, any of these names, any
\* arguments.
CallOf(toolNames) ==
  /\ CanStart
  /\ \E toolName \in toolNames : \E args \in ArgsFor(toolName) :
       executeTool(toolName, args)
  /\ UNCHANGED <<last, dmpLossy, agent, peer>>

CallTool == CallOf(ToolNames)

ToolReply ==
  /\ \E reply \in LlmReplies :
       \/ EditHtmlDocumentResume(reply)
       \/ GenerateHtmlWithLlmResume(reply)
  /\ UNCHANGED <<last, dmpLossy, agent, peer>>

InitTool ==
  /\ StoreInit
  /\ last = NoCall
  /\ dmpLossy \in SUBSET LossyTexts
  /\ exec = Idle
  /\ agent = NotRunning
  /\ peer = Idle

NextTool == CallTool \/ ToolReply

SpecTool == InitTool /\ [][NextTool]_vars

\* A second request whose loop calls edit_html_document while the first
\* request's call may be waiting: the steps of the two calls interleave at
\* their awaits.
PeerEdit ==
  /\ peer.pc \in {"idle", "done"}
  /\ \E args \in ArgsFor("edit_html_document") : peer' = EditStarted(args)
  /\ UNCHANGED <<storeVars, last, dmpLossy, exec, agent>>

PeerReply ==
  /\ peer.pc = "await_edit"
  /\ \E reply \in LlmReplies, t \in Clock :
       /\ EditStored(peer, reply, t)
       /\ peer' = EditReturns(peer, reply, t)
  /\ UNCHANGED <<memoryData, memoryFile, last, dmpLossy, exec, agent>>

\* The editor's request of the first request's call is answered.
EditReply ==
  /\ \E reply \in LlmReplies : EditHtmlDocumentResume(reply)
  /\ UNCHANGED <<last, dmpLossy, agent, peer>>

NextRace ==
  \/ CallOf({"create_html_document", "edit_html_document"})
  \/ EditReply
  \/ PeerEdit
  \/ PeerReply

SpecRace == Init /\ [][NextRace]_vars

\* --------------------------------------------------- agent.ts: runAgent

systemInstruction == "You are a helpful business assistant that works with TechCorp Solutions. ..."

\* Transcripts a caller passes to runAgent: up to MaxIncoming messages of
\* role user or assistant.
IncomingMessage == {[role |-> r, content |-> "hi"] : r \in {"user", "assistant"}}
Incoming ==
  UNION {[1..n -> IncomingMessage] : n \in 0..MaxIncoming}

\* Tool calls the model may request: a name and the text of its arguments,
\* which is the JSON of an argument object or text JSON.parse rejects.
Malformed == [malformed |-> TRUE]
RequestedCalls ==
  {[name |-> "create_html_document", arguments |-> [content |-> <<"x">>]],
   [name |-> "edit_html_document",
    arguments |-> [documentId |-> DocId(0), editDescription |-> "make it blue"]],
   [name |-> "generate_html_with_llm", arguments |-> [description |-> "make it blue"]],
   [name |-> "write_long_term_memory", arguments |-> [key |-> "k1", value |-> "\"v\""]],
   [name |-> "read_long_term_memory", arguments |-> [key |-> "k1"]],
   [name |-> "list_html_documents", arguments |-> EmptyArgs],
   [name |-> "read_memory", arguments |-> EmptyArgs],
   [name |-> "create_html_document", arguments |-> Malformed]}
CallIds == <<"call_a", "call_b", "call_c">>

\* The tool_calls array of an assistant message requesting these calls.
ToolCalls(requested) ==
  [i \in 1..Len(requested) |->
     [id |-> CallIds[i], type |-> "function",
      function |-> [name |-> requested[i].name,
                    arguments |-> requested[i].arguments]]]

\* The usage a response reports: token counts, or no usage at all.
Usage(promptTokens, completionTokens) ==
  [prompt_tokens |-> promptTokens, completion_tokens |-> completionTokens]
\* response.usage of a response that reports none.
NoUsage == [undefined |-> TRUE]
PromptTokens == {2, 10, 200, 1000}
CompletionTokens == {0, 7, 100, 500}
Usages == {Usage(p, c) : p \in PromptTokens, c \in CompletionTokens}
\* The usages the replies to the loop carry when the tools are followed.
AgentUsages == {NoUsage, Usage(1000, 500)}

\* Replies of the generation capability to the loop's request: a failure, a
\* final turn (content null, empty or text) or a turn requesting tool calls.
ModelReplies ==
  {LlmFailure}
    \cup {[ok |-> TRUE, content |-> c, tool_calls |-> <<>>, usage |-> u] :
            c \in {JsNull, "", "answer"}, u \in AgentUsages}
    \cup {[ok |-> TRUE, content |-> JsNull, tool_calls |-> ToolCalls(requested),
            usage |-> u] :
            requested \in UNION {[1..n -> RequestedCalls] : n \in 1..MaxToolCalls},
            u \in AgentUsages}

\* PRICING['gpt-4o-mini'] in cents per million tokens.  An amount before
\* rounding is counted in 1e-8 dollars, a recorded cost in 1e-6 dollars.
modelPricing_input == 15
modelPricing_output == 60

\* inputCost + outputCost, in 1e-8 dollars.
callCost(promptTokens, completionTokens) ==
  promptTokens * modelPricing_input + completionTokens * modelPricing_output

\* The usages whose callCost is, as a decimal, halfway between two values of
\* six decimals and, as the double the arithmetic gives, below the halfway
\* point; the doubles of the other halfway usages are above it.
BelowHalfway == {Usage(2, 7), Usage(10, 500)}

\* A slip the rounding could make: cutting the digits off.
RoundedCallCost_truncated(promptTokens, completionTokens) ==
  callCost(promptTokens, completionTokens) \div 100

\* parseFloat(callCost.toFixed(6)), in 1e-6 dollars: toFixed rounds the double
\* to the nearest value of six decimals.
RoundedCallCost(promptTokens, completionTokens) ==
  LET x == callCost(promptTokens, completionTokens)
  IN IF x % 100 > 50
        \/ (x % 100 = 50 /\ Usage(promptTokens, completionTokens) \notin BelowHalfway)
     THEN x \div 100 + 1
     ELSE x \div 100

\* trackCallCost(usage, callNumber) on the loop's locals: nothing is recorded
\* for a response without usage.  (`|| 0` leaves a token count as it is.)
trackCallCost(locals, usage, callNumber) ==
  IF usage = NoUsage THEN locals
  ELSE [locals EXCEPT
          !.totalPromptTokens = @ + usage.prompt_tokens,
          !.totalCompletionTokens = @ + usage.completion_tokens,
          !.callCosts =
            Append(@, [callNumber |-> callNumber,
                       promptTokens |-> usage.prompt_tokens,
                       completionTokens |-> usage.completion_tokens,
                       cost |-> RoundedCallCost(usage.prompt_tokens,
                                                usage.completion_tokens)])]

\* callCosts.reduce((sum, call) => sum + call.cost, 0), then toFixed(6): the
\* costs are values of six decimals, and so is their sum.
RECURSIVE totalCost(_)
totalCost(callCosts) ==
  IF callCosts = <<>> THEN 0
  ELSE callCosts[1].cost + totalCost(Tail(callCosts))

\* A slip the totals could make: counting the records as the calls.
costInfo_countsRecords(locals) ==
  [totalCost |-> totalCost(locals.callCosts),
   totalTokens |-> locals.totalPromptTokens + locals.totalCompletionTokens,
   promptTokens |-> locals.totalPromptTokens,
   completionTokens |-> locals.totalCompletionTokens,
   calls |-> Len(locals.callCosts),
   callCosts |-> locals.callCosts]

\* costInfo
costInfo(locals) ==
  [totalCost |-> totalCost(locals.callCosts),
   totalTokens |-> locals.totalPromptTokens + locals.totalCompletionTokens,
   promptTokens |-> locals.totalPromptTokens,
   completionTokens |-> locals.totalCompletionTokens,
   calls |-> locals.apiCalls,
   callCosts |-> locals.callCosts]

\* A slip the test for a new conversation could make: looking at the first
\* message only.
isNewConversation_firstOnly(messages) ==
  Len(messages) >= 1 /\ messages[1].role = "user"

\* messages.length === 1 && messages[0].role === 'user'
isNewConversation(messages) ==
  Len(messages) = 1 /\ messages[1].role = "user"

SystemMessage == [role |-> "system", content |-> systemInstruction]

\* The fabricated assistant turn and its tool-result turn.
InitToolCall ==
  [role |-> "assistant", content |-> JsNull,
   tool_calls |-> <<[id |-> "call_init_business_profile", type |-> "function",
                     function |-> [name |-> "read_business_profile",
                                   arguments |-> EmptyArgs]]>>]
InitToolResult(profileResult) ==
  [role |-> "tool", tool_call_id |-> "call_init_business_profile",
   content |-> profileResult]

\* messages.map(msg => ({ role: msg.role, content: msg.content }))
ToParams(messages) ==
  [i \in 1..Len(messages) |->
     [role |-> messages[i].role, content |-> messages[i].content]]

\* conversationMessages as built before the first request.
ConversationMessages(messages, profileResult) ==
  <<SystemMessage>>
    \o (IF isNewConversation(messages)
        THEN <<InitToolCall, InitToolResult(profileResult)>> ELSE <<>>)
    \o ToParams(messages)

\* How the promise of runAgent stands: pending, or rejected with an error
\* (settled with a value, it holds the object returned).
Pending == [pending |-> TRUE]
Raised(message) == [error |-> message]

\* let documentId: string | undefined, before any assignment (an id is a
\* tuple, and so is the lack of one).
NoDocumentId == <<"undefined">>

\* runAgent up to its first request to the generation capability, which sends
\* conversationMessages (kept in firstCall).  requests keeps the transcript of
\* every request sent, executed the tool calls dispatched, in order, and
\* innerCalls counts the generation requests the tools have made.
RunAgent(messages) ==
  /\ agent.pc = "idle"
  /\ IF isNewConversation(messages)
     THEN executeTool("read_business_profile", EmptyArgs)
     ELSE UNCHANGED <<storeVars, exec>>
  /\ agent' = [pc |-> "await_model",
               incoming |-> messages,
               firstCall |-> ConversationMessages(messages, exec'.result),
               conversationMessages |-> ConversationMessages(messages, exec'.result),
               messagesToSend |-> <<>>,
               toolCalls |-> <<>>, next |-> 1, toolCallResults |-> <<>>,
               totalPromptTokens |-> 0, totalCompletionTokens |-> 0,
               apiCalls |-> 0, callCosts |-> <<>>, usages |-> <<>>,
               requests |-> <<ConversationMessages(messages, exec'.result)>>,
               executed |-> <<>>, innerCalls |-> 0,
               documentId |-> NoDocumentId, ret |-> Pending]
  /\ UNCHANGED <<last, dmpLossy, peer>>

\* A slip the loop could make: sending the request again when a step fails.
Abort_retries(locals, message) ==
  [locals EXCEPT !.requests = Append(@, @[Len(@)])]

\* An exception inside runAgent: nothing in the function catches it, the
\* promise is rejected with it and none of the function's code runs after it.
Abort(locals, message) ==
  [locals EXCEPT !.pc = "failed", !.ret = Raised(message)]

\* POST /api/chat: the response made from the outcome of `await runAgent`.
ChatResponse(ret) ==
  IF "error" \in DOMAIN ret
  THEN [status |-> 500, body |-> [error |-> ret.error]]
  ELSE [status |-> 200, body |-> ret]

\* A slip the return could make: the placeholder for a null content only.
FinalMessage_nullOnly(content) ==
  IF content = JsNull THEN "No response generated" ELSE content

\* assistantMessage.content || 'No response generated': a content is null or
\* a string, and the empty string is the falsy one.
FinalMessage(content) ==
  IF content = JsNull \/ content = "" THEN "No response generated" ELSE content

\* A slip the loop could make: never going into its body.
LoopContinues_never(assistantMessage) == FALSE

\* while (assistantMessage.tool_calls && assistantMessage.tool_calls.length > 0)
LoopContinues(assistantMessage) == Len(assistantMessage.tool_calls) > 0

\* A reply that asks for another round is followed for `rounds` rounds only.
Within(reply, rounds) ==
  (reply.ok /\ reply.tool_calls # <<>>) => agent.apiCalls < rounds

\* The reply to a request of the loop arrives: the call is counted and its
\* cost tracked, the assistant turn is appended, and the loop ends, or starts
\* on the turn's tool calls.  (usages keeps what the responses carried.)
ModelReply(reply) ==
  /\ agent.pc = "await_model"
  /\ agent' =
       IF ~reply.ok THEN Abort(agent, reply.message)
       ELSE LET assistantMessage ==
                  [role |-> "assistant", content |-> reply.content,
                   tool_calls |-> reply.tool_calls]
                sent == IF agent.apiCalls = 0 THEN agent.conversationMessages
                        ELSE agent.messagesToSend
                counted == [agent EXCEPT !.apiCalls = @ + 1,
                                         !.usages = Append(@, reply.usage)]
                tracked == trackCallCost(counted, reply.usage, counted.apiCalls)
            IN [tracked EXCEPT
                  !.messagesToSend = Append(sent, assistantMessage),
                  !.toolCalls = reply.tool_calls,
                  !.next = 1,
                  !.toolCallResults = <<>>,
                  !.pc = IF LoopContinues(assistantMessage) THEN "tools" ELSE "done",
                  !.ret = IF LoopContinues(assistantMessage) THEN Pending
                          ELSE [message |-> FinalMessage(reply.content),
                                cost |-> costInfo(tracked),
                                documentId |-> agent.documentId]]
  /\ UNCHANGED <<storeVars, last, dmpLossy, exec, peer>>

\* The loop body up to `await executeTool`: JSON.parse of the arguments, which
\* may throw, then the dispatch.
AgentCallTool ==
  /\ agent.pc = "tools"
  /\ LET toolCall == agent.toolCalls[agent.next] IN
       IF toolCall.function.arguments = Malformed
       THEN /\ agent' = Abort(agent, "SyntaxError")
            /\ UNCHANGED <<storeVars, exec>>
       ELSE /\ executeTool(toolCall.function.name, toolCall.function.arguments)
            /\ agent' = [agent EXCEPT !.pc = "in_tool",
                                      !.executed = Append(@, toolCall)]
  /\ UNCHANGED <<last, dmpLossy, peer>>

\* A slip the tracking could make: forgetting the document when a result
\* carries none.
TrackDocumentId_cleared(documentId, toolName, result) ==
  IF toolName \in {"create_html_document", "edit_html_document",
                   "generate_html_with_llm"}
  THEN IF "document" \in DOMAIN result THEN result.document.id ELSE NoDocumentId
  ELSE documentId

\* A slip the loop could make: putting each result in front of the earlier ones.
PushResult_unshift(toolCallResults, message) == <<message>> \o toolCallResults

\* toolCallResults.push(message)
PushResult(toolCallResults, message) == Append(toolCallResults, message)

DocumentTools ==
  {"create_html_document", "edit_html_document", "generate_html_with_llm"}

\* resultObj.document && resultObj.document.id
HasDocumentId(result) == "document" \in DOMAIN result

\* The generation capability answers a request of the loop with one of
\* `replies`; turns that ask for tool calls are followed for `rounds` rounds.
Reply(replies, rounds) ==
  \E reply \in replies : ModelReply(reply) /\ Within(reply, rounds)

\* documentId after the result of a call to toolName has been looked at.
TrackDocumentId(documentId, toolName, result) ==
  IF toolName \in DocumentTools /\ HasDocumentId(result)
  THEN result.document.id ELSE documentId

\* executeTool has settled: the result is noted and pushed; after the last
\* call of the turn the results join the transcript and the next request goes
\* out.
AgentToolReturn ==
  /\ agent.pc = "in_tool"
  /\ exec.pc = "done"
  /\ agent' =
       IF exec.outcome = "thrown"
       THEN Abort(agent, exec.result)
       ELSE LET toolCall == agent.toolCalls[agent.next]
                results == PushResult(agent.toolCallResults,
                                      [role |-> "tool", tool_call_id |-> toolCall.id,
                                       content |-> exec.result])
                documentId ==
                  TrackDocumentId(agent.documentId, toolCall.function.name, exec.result)
            IN IF agent.next < Len(agent.toolCalls)
               THEN [agent EXCEPT !.pc = "tools", !.next = @ + 1,
                                  !.toolCallResults = results,
                                  !.innerCalls = @ + exec.llmCalls,
                                  !.documentId = documentId]
               ELSE [agent EXCEPT !.pc = "await_model",
                                  !.toolCallResults = results,
                                  !.innerCalls = @ + exec.llmCalls,
                                  !.documentId = documentId,
                                  !.messagesToSend = @ \o results,
                                  !.requests = Append(@, agent.messagesToSend \o results)]
  /\ UNCHANGED <<storeVars, last, dmpLossy, exec, peer>>

InitAgent ==
  /\ StoreInit
  /\ last = NoCall
  /\ dmpLossy \in {{}, LossyTexts}
  /\ exec = Idle
  /\ agent = NotRunning
  /\ peer = Idle

NextAgent ==
  \/ \E messages \in Incoming : RunAgent(messages)
  \/ Reply(ModelReplies, MaxRounds)
  \/ AgentCallTool
  \/ ToolReply
  \/ AgentToolReturn

SpecAgent == InitAgent /\ [][NextAgent]_vars

\* The transcript of a conversation that begins.
NewConversation == <<[role |-> "user", content |-> "hi"]>>

\* The loop followed from round to round: one conversation, turns that request
\* up to MaxToolCalls of a few calls.
LoopCalls ==
  {[name |-> "create_html_document", arguments |-> [content |-> <<"x">>]],
   [name |-> "edit_html_document",
    arguments |-> [documentId |-> DocId(0), editDescription |-> "make it blue"]],
   [name |-> "write_long_term_memory", arguments |-> [key |-> "k1", value |-> "\"v\""]],
   [name |-> "create_html_document", arguments |-> Malformed]}
LoopReplies ==
  {LlmFailure}
    \cup {[ok |-> TRUE, content |-> c, tool_calls |-> <<>>, usage |-> u] :
            c \in {JsNull, "", "answer"}, u \in AgentUsages}
    \cup {[ok |-> TRUE, content |-> JsNull, tool_calls |-> ToolCalls(requested),
            usage |-> u] :
            requested \in UNION {[1..n -> LoopCalls] : n \in 1..MaxToolCalls},
            u \in AgentUsages}

NextLoop ==
  \/ RunAgent(NewConversation)
  \/ Reply(LoopReplies, MaxLoopRounds)
  \/ AgentCallTool
  \/ ToolReply
  \/ AgentToolReturn

SpecLoop == InitAgent /\ [][NextLoop]_vars

\* The loop followed to its end: one conversation, turns of one call each (so
\* that the rounds followed never fill the document list), every await of the
\* invocation settles and every continuation that is ready runs.
LiveCalls ==
  {[name |-> "create_html_document", arguments |-> [content |-> <<"x">>]],
   [name |-> "edit_html_document",
    arguments |-> [documentId |-> DocId(0), editDescription |-> "make it blue"]],
   [name |-> "write_long_term_memory", arguments |-> [key |-> "k1", value |-> "\"v\""]]}
LiveToolTurns ==
  {[ok |-> TRUE, content |-> JsNull, tool_calls |-> ToolCalls(<<call>>),
    usage |-> Usage(1000, 500)] : call \in LiveCalls}
LiveReplies ==
  {LlmFailure,
   [ok |-> TRUE, content |-> "answer", tool_calls |-> <<>>, usage |-> Usage(1000, 500)]}
    \cup LiveToolTurns

NextLive ==
  \/ RunAgent(NewConversation)
  \/ Reply(LiveReplies, MaxLoopRounds)
  \/ AgentCallTool
  \/ ToolReply
  \/ AgentToolReturn

SpecLive ==
  /\ InitAgent
  /\ [][NextLive]_vars
  /\ WF_vars(RunAgent(NewConversation))
  /\ WF_vars(Reply(LiveReplies, MaxLoopRounds))
  /\ WF_vars(AgentCallTool)
  /\ WF_vars(ToolReply)
  /\ WF_vars(AgentToolReturn)

\* The loop followed for its ledger: one conversation, replies that carry any
\* usage and request at most the listing of the documents.
CostReplies ==
  {[ok |-> TRUE, content |-> "answer", tool_calls |-> <<>>, usage |-> u] :
     u \in Usages \cup {NoUsage}}
    \cup {[ok |-> TRUE, content |-> JsNull,
            tool_calls |-> ToolCalls(<<[name |-> "list_html_documents",
                                        arguments |-> EmptyArgs]>>),
            usage |-> u] :
            u \in Usages \cup {NoUsage}}

NextCost ==
  \/ RunAgent(NewConversation)
  \/ Reply(CostReplies, MaxRounds)
  \/ AgentCallTool
  \/ AgentToolReturn

SpecCost == InitAgent /\ [][NextCost]_vars

\* ------------------------------------------------------ Key-Value Store

\* C1: a read that directly follows write(k, v) on the same key returns v,
\* whatever v is, and a getAll that directly follows the write maps k to v.
C1_WriteReadRoundTrip ==
  /\ (last.op = "read" /\ last.after.op = "write" /\ last.after.key = last.key)
       => last.ret = last.after.value
  /\ (last.op = "getAllMemory" /\ last.after.op = "write")
       => /\ last.after.key \in DOMAIN last.ret
          /\ last.ret[last.after.key] = last.after.value

\* ------------------------------------------------------- Document Store

\* C2: a get of the id a create just returned yields a document with the
\* created content and createdAt equal to updatedAt.
C2_CreateThenGet ==
  (last.op = "get" /\ last.after.op = "create" /\ last.id = last.after.ret.id)
    => /\ last.ret # NullDoc
       /\ last.ret.content = last.after.content
       /\ last.ret.createdAt = last.ret.updatedAt

\* C3: no two documents of the list have the same id.
C3_UniqueIds ==
  \A i \in 1..Len(htmlDocuments), j \in 1..Len(htmlDocuments) :
    i # j => htmlDocuments[i].id # htmlDocuments[j].id

UpdatedDocBefore == last.docsBefore[last.index]
UpdatedDocAfter == htmlDocuments[last.index]
UpdateFound == last.op = "update" /\ last.index # 0

\* C4 as stated: an update of an existing id sets the content, keeps id and
\* createdAt and moves updatedAt strictly past its previous value.
C4_UpdatedAtStrictlyAdvances ==
  UpdateFound =>
    /\ UpdatedDocAfter.content = last.content
    /\ UpdatedDocAfter.id = UpdatedDocBefore.id
    /\ UpdatedDocAfter.createdAt = UpdatedDocBefore.createdAt
    /\ UpdatedDocAfter.updatedAt.iso > UpdatedDocBefore.updatedAt.iso

\* C4 as amended: an update of an existing id sets the content, keeps id and
\* createdAt and sets updatedAt to the clock reading of the update, which is
\* never before the previous updatedAt and is equal to it when the clock has
\* not advanced; the returned record is the updated document.
C4_UpdatedAtIsClockReading ==
  UpdateFound =>
    /\ UpdatedDocAfter.content = last.content
    /\ UpdatedDocAfter.id = UpdatedDocBefore.id
    /\ UpdatedDocAfter.id = last.id
    /\ UpdatedDocAfter.createdAt = UpdatedDocBefore.createdAt
    /\ UpdatedDocAfter.updatedAt = ToISOString(last.at)
    /\ UpdatedDocAfter.updatedAt.iso >= UpdatedDocBefore.updatedAt.iso
    /\ last.ret = UpdatedDocAfter

\* C4's case: an update at the clock reading of the document's previous stamp,
\* and one at a later reading.
C4_Witness ==
  /\ UpdateFound
  /\ UpdatedDocAfter.content # UpdatedDocBefore.content
  /\ UpdatedDocAfter.updatedAt = UpdatedDocBefore.updatedAt

\* C5: an update of an id no document has returns null and changes neither
\* the list nor the file, which it does not rewrite.
C5_UpdateAbsentIsNoOp ==
  (last.op = "update" /\ last.index = 0) =>
    /\ last.ret = NullDoc
    /\ htmlDocuments = last.docsBefore
    /\ htmlDocsFile = last.fileBefore
    /\ ~last.wrote

\* C5's case: an update of an absent id on a list that holds documents.
C5_Witness ==
  /\ last.op = "update"
  /\ last.index = 0
  /\ Len(htmlDocuments) > 0

\* C13: getAll lists the documents in insertion order, and what a returned
\* list shows is not changed by a later create or update.
C13_GetAllIsSnapshot ==
  /\ last.op = "getAllDocs" => last.seen = htmlDocuments
  /\ (last.op \in {"create", "update"} /\ last.after.op = "getAllDocs")
       => Deref(last.after.ret, htmlDocuments) = last.after.seen

\* ---------------------------------------------------------- executeTool

\* C6: every executeTool call ends by returning a JSON string; none raises.
C6_ExecuteToolNeverRaises == exec.pc = "done" => exec.outcome = "returned"

\* C7: a call with a name outside the catalog returns {error: "Unknown tool:
\* <name>"}, makes no generation request and leaves both stores and their
\* files as they were.
C7_UnknownToolReturnsError ==
  (exec.pc = "done" /\ exec.name \notin ToolCatalog) =>
    /\ exec.outcome = "returned"
    /\ exec.result = [error |-> <<"Unknown tool: ", exec.name>>]
    /\ exec.llmCalls = 0
    /\ exec.before = Before

\* C7's case: an unknown name dispatched while both stores hold data.
C7_Witness ==
  /\ exec.pc = "done"
  /\ exec.name \in UnknownTools
  /\ Len(htmlDocuments) > 0
  /\ memoryData["k1"] # UNDEFINED

\* C12: a read_long_term_memory call returns the requested key and a value:
\* the stored value when write_long_term_memory has written the key (whatever
\* it stored, the empty string included), the placeholder narrative only when
\* the key was never written.
C12_ReadReturnsStoredValue ==
  (exec.pc = "done" /\ exec.name = "read_long_term_memory") =>
    /\ exec.outcome = "returned"
    /\ exec.result.key = exec.args.key
    /\ exec.result.value =
         IF exec.before.memoryData[exec.args.key] # UNDEFINED
         THEN exec.before.memoryData[exec.args.key]
         ELSE fakeMemoryStory

\* An edit_html_document call that found its document and has ended.
EditRan == exec.pc = "done" /\ exec.name = "edit_html_document" /\ exec.edit.ran
\* What the editor worked on in that call.
EditOriginal == exec.edit.originalHtml
EditEdited == exec.edit.edited
EditCandidate ==
  applyPatch(EditOriginal, generatePatch(EditOriginal, EditEdited), dmpLossy)
\* The generation request succeeded and neither the candidate nor the raw text parses.
BothInvalid ==
  /\ exec.edit.replied
  /\ ParseThrows(EditCandidate)
  /\ ParseThrows(EditEdited)

\* C8: when neither the patched candidate nor the raw edited text parses, the
\* edit returns {success: false, message} with a non-empty message and the
\* document list and its file are as before the call.
C8_InvalidEditIsSoftFailure ==
  (EditRan /\ BothInvalid) =>
    /\ exec.outcome = "returned"
    /\ exec.result.success = FALSE
    /\ Len(exec.result.message) > 0
    /\ exec.result.message[1] = "Error editing document: "
    /\ htmlDocuments = exec.before.htmlDocuments
    /\ htmlDocsFile = exec.before.htmlDocsFile

\* C8's case: such an edit with two documents stored and a patch that was not
\* empty.
C8_Witness ==
  /\ EditRan
  /\ BothInvalid
  /\ EditEdited # EditOriginal
  /\ Len(htmlDocuments) = 2

\* The editor returned (updatedHtml, patch) in that call.
EditReturned == EditRan /\ exec.edit.ret.ok

\* C9 as stated: the returned patch applied to the original gives the returned
\* updatedHtml.
C9_PatchReproducesResult ==
  EditReturned =>
    applyPatch(EditOriginal, exec.edit.ret.patch, dmpLossy) = exec.edit.ret.updatedHtml

\* C9 as amended: the returned updatedHtml parses; it is the patch applied to
\* the original when that candidate parses, and otherwise (the fallback path)
\* it is the raw edited text, which the patch applied to the original does not
\* give; the patch, with every one of its patches placed, turns the original
\* into the raw edited text.
C9_PatchReproducesResultUnlessFallback ==
  EditReturned =>
    LET candidate == applyPatch(EditOriginal, exec.edit.ret.patch, dmpLossy)
    IN /\ ~ParseThrows(exec.edit.ret.updatedHtml)
       /\ IF ParseThrows(candidate)
          THEN /\ exec.edit.ret.updatedHtml = EditEdited
               /\ exec.edit.ret.updatedHtml # candidate
          ELSE exec.edit.ret.updatedHtml = candidate
       /\ applyPatch(EditOriginal, exec.edit.ret.patch, {}) = EditEdited

\* C9's case: a return on the fallback path.
C9_Witness ==
  /\ EditReturned
  /\ ParseThrows(applyPatch(EditOriginal, exec.edit.ret.patch, dmpLossy))
  /\ exec.result.success = TRUE

\* ------------------------------------------------------------- runAgent

\* C10: for an incoming transcript of exactly one user message the first
\* request's transcript is the system message, the fabricated assistant turn
\* with its single read_business_profile call, the tool result tagged with that
\* call's id and carrying the profile, then the user message; for any other
\* incoming transcript it is the system message followed by the incoming
\* messages in order.
C10_FirstCallTranscript ==
  agent.pc # "idle" =>
    LET first == agent.firstCall
        incoming == agent.incoming
    IN IF Len(incoming) = 1 /\ incoming[1].role = "user"
       THEN /\ Len(first) = 4
            /\ first[1] = [role |-> "system", content |-> systemInstruction]
            /\ first[2].role = "assistant"
            /\ Len(first[2].tool_calls) = 1
            /\ first[2].tool_calls[1].function.name = "read_business_profile"
            /\ first[3].role = "tool"
            /\ first[3].tool_call_id = first[2].tool_calls[1].id
            /\ first[3].content = businessProfile
            /\ first[4] = incoming[1]
       ELSE first = <<[role |-> "system", content |-> systemInstruction]>> \o incoming

\* C10's case: a new conversation whose first request has been answered.
C10_Witness ==
  /\ agent.pc = "done"
  /\ Len(agent.incoming) = 1
  /\ agent.incoming[1].role = "user"
  /\ Len(agent.firstCall) = 4

\* ----------------------------------------------------------- Cost Ledger

\* The cost runAgent returned.
ReturnedCost == agent.ret.cost

RECURSIVE SumOf(_, _)
SumOf(callCosts, field) ==
  IF callCosts = <<>> THEN 0
  ELSE callCosts[1][field] + SumOf(Tail(callCosts), field)

\* The distance of a recorded cost from the exact amount, in 1e-8 dollars.
RoundingError(call) ==
  100 * call.cost - (15 * call.promptTokens + 60 * call.completionTokens)

\* The records of calls of (1000, 500) and (200, 100) tokens.
ScenarioCalls(callCosts) ==
  /\ Len(callCosts) = 2
  /\ callCosts[1].promptTokens = 1000 /\ callCosts[1].completionTokens = 500
  /\ callCosts[2].promptTokens = 200 /\ callCosts[2].completionTokens = 100

\* C11: every recorded cost is prompt * 0.15 / 1e6 + completion * 0.60 / 1e6
\* rounded to six decimals (a nearest value of six decimals); the returned
\* totalCost is the sum of the recorded costs and promptTokens,
\* completionTokens and totalTokens are the sums of the recorded token counts;
\* calls of (1000, 500) and (200, 100) tokens cost 0.00045 and 0.00009 and
\* 0.00054 in total.
C11_CostLedgerArithmetic ==
  agent.pc = "done" =>
    /\ \A i \in 1..Len(ReturnedCost.callCosts) :
         LET record == ReturnedCost.callCosts[i]
             usage == agent.usages[record.callNumber]
         IN /\ RoundingError(record) \in -50..50
            /\ record.promptTokens = usage.prompt_tokens
            /\ record.completionTokens = usage.completion_tokens
    /\ ReturnedCost.totalCost = SumOf(ReturnedCost.callCosts, "cost")
    /\ ReturnedCost.promptTokens = SumOf(ReturnedCost.callCosts, "promptTokens")
    /\ ReturnedCost.completionTokens = SumOf(ReturnedCost.callCosts, "completionTokens")
    /\ ReturnedCost.totalTokens =
         ReturnedCost.promptTokens + ReturnedCost.completionTokens
    /\ ScenarioCalls(ReturnedCost.callCosts) =>
         /\ ReturnedCost.callCosts[1].cost = 450
         /\ ReturnedCost.callCosts[2].cost = 90
         /\ ReturnedCost.totalCost = 540

\* C11's case: the two calls of the scenario, returned.
C11_Witness ==
  /\ agent.pc = "done"
  /\ ScenarioCalls(ReturnedCost.callCosts)
  /\ ReturnedCost.calls = 2

\* The rounds of tool calls the invocation went through.
Rounds == Len(agent.requests) - 1

\* The responses to the loop's requests that carried usage, as call numbers.
RECURSIVE Reported(_, _)
Reported(usages, k) ==
  IF k > Len(usages) THEN <<>>
  ELSE (IF usages[k] = NoUsage THEN <<>> ELSE <<k>>) \o Reported(usages, k + 1)

RECURSIVE SumOfUsages(_, _)
SumOfUsages(usages, field) ==
  IF usages = <<>> THEN 0
  ELSE (IF usages[1] = NoUsage THEN 0 ELSE usages[1][field])
         + SumOfUsages(Tail(usages), field)

\* C19 as stated: the returned calls is 1 plus the number of tool-call rounds,
\* callCosts holds one record per call of the loop with callNumber 1..calls in
\* order, and the totals hold the tokens of the loop's own calls only.
C19_LedgerCoverage ==
  agent.pc = "done" =>
    /\ ReturnedCost.calls = 1 + Rounds
    /\ Len(ReturnedCost.callCosts) = ReturnedCost.calls
    /\ \A i \in 1..Len(ReturnedCost.callCosts) : ReturnedCost.callCosts[i].callNumber = i
    /\ ReturnedCost.promptTokens = SumOfUsages(agent.usages, "prompt_tokens")
    /\ ReturnedCost.completionTokens = SumOfUsages(agent.usages, "completion_tokens")

\* C19 as amended: the returned calls is 1 plus the number of tool-call rounds,
\* whatever the tools requested from the generation capability themselves;
\* callCosts holds one record for each call of the loop whose response carried
\* usage, in order and numbered with the call's number (1..calls in order when
\* every response carried usage); a response without usage is counted in
\* calls and has no record; the totals hold the tokens of the loop's own calls
\* only.
C19_LedgerCoverageOfReportedUsage ==
  agent.pc = "done" =>
    LET reported == Reported(agent.usages, 1) IN
    /\ ReturnedCost.calls = 1 + Rounds
    /\ Len(agent.usages) = ReturnedCost.calls
    /\ Len(ReturnedCost.callCosts) = Len(reported)
    /\ \A i \in 1..Len(reported) :
         /\ ReturnedCost.callCosts[i].callNumber = reported[i]
         /\ ReturnedCost.callCosts[i].promptTokens = agent.usages[reported[i]].prompt_tokens
    /\ Len(reported) = ReturnedCost.calls =>
         \A i \in 1..ReturnedCost.calls : ReturnedCost.callCosts[i].callNumber = i
    /\ ReturnedCost.promptTokens = SumOfUsages(agent.usages, "prompt_tokens")
    /\ ReturnedCost.completionTokens = SumOfUsages(agent.usages, "completion_tokens")
    /\ ReturnedCost.totalTokens =
         ReturnedCost.promptTokens + ReturnedCost.completionTokens

\* C19's case: a return after rounds in which an edit made its own generation
\* request, with usage on every response of the loop but one.
C19_Witness ==
  /\ agent.pc = "done"
  /\ agent.innerCalls >= 1
  /\ ReturnedCost.calls = 3
  /\ Len(ReturnedCost.callCosts) = 2
  /\ agent.usages[2] = NoUsage

\* ------------------------------------------------------------ Agent Loop

IsPrefix(a, b) == Len(a) <= Len(b) /\ SubSeq(b, 1, Len(a)) = a

\* The tool calls the assistant turns of a transcript request, in order.
RECURSIVE RequestedBy(_)
RequestedBy(transcript) ==
  IF transcript = <<>> THEN <<>>
  ELSE (IF transcript[1].role = "assistant" /\ "tool_calls" \in DOMAIN transcript[1]
        THEN transcript[1].tool_calls ELSE <<>>)
         \o RequestedBy(Tail(transcript))

\* What the invocation has added to the transcript of its first request.
Added == SubSeq(agent.messagesToSend, Len(agent.firstCall) + 1, Len(agent.messagesToSend))

\* The assistant turn that request k answers to, and its results in request k.
TurnBefore(k) == agent.requests[k][Len(agent.requests[k - 1]) + 1]
ResultsIn(k) ==
  SubSeq(agent.requests[k], Len(agent.requests[k - 1]) + 2, Len(agent.requests[k]))

\* C14: every request after the first is the request before it, then the
\* assistant turn that asked for tool calls t1..tn, then exactly n tool-result
\* turns, the i-th tagged with the id of ti; the tools are dispatched one at a
\* time in the order requested, all of them before the next request.
C14_ToolResultsInRequestOrder ==
  agent.pc # "idle" =>
    /\ \A k \in 2..Len(agent.requests) :
         /\ IsPrefix(agent.requests[k - 1], agent.requests[k])
         /\ TurnBefore(k).role = "assistant"
         /\ Len(TurnBefore(k).tool_calls) >= 1
         /\ Len(ResultsIn(k)) = Len(TurnBefore(k).tool_calls)
         /\ \A i \in 1..Len(ResultsIn(k)) :
              /\ ResultsIn(k)[i].role = "tool"
              /\ ResultsIn(k)[i].tool_call_id = TurnBefore(k).tool_calls[i].id
    /\ agent.apiCalls >= 1 =>
         /\ IsPrefix(agent.executed, RequestedBy(Added))
         /\ IsPrefix(agent.requests[Len(agent.requests)], agent.messagesToSend)
         /\ agent.pc = "await_model" =>
              /\ agent.executed = RequestedBy(Added)
              /\ agent.requests[Len(agent.requests)] = agent.messagesToSend
    /\ agent.pc = "in_tool" => exec.name = agent.executed[Len(agent.executed)].function.name

\* C14's case: a second request that follows a turn of two different tool calls.
C14_Witness ==
  /\ agent.pc = "await_model"
  /\ Len(agent.requests) = 2
  /\ Len(TurnBefore(2).tool_calls) = 2
  /\ TurnBefore(2).tool_calls[1].function.name # TurnBefore(2).tool_calls[2].function.name
  /\ ResultsIn(2)[1].content # ResultsIn(2)[2].content

\* The tool-result turns of a transcript, in order.
RECURSIVE ToolResults(_)
ToolResults(transcript) ==
  IF transcript = <<>> THEN <<>>
  ELSE (IF transcript[1].role = "tool" THEN <<transcript[1].content>> ELSE <<>>)
         \o ToolResults(Tail(transcript))

\* The id of the last of these calls that is a create, edit or generate whose
\* result carries a document; undefined when there is none.
RECURSIVE LastDocument(_, _)
LastDocument(calls, results) ==
  IF calls = <<>> THEN NoDocumentId
  ELSE LET n == Len(calls) IN
       IF /\ calls[n].function.name \in {"create_html_document", "edit_html_document",
                                          "generate_html_with_llm"}
          /\ "document" \in DOMAIN results[n]
       THEN results[n].document.id
       ELSE LastDocument(SubSeq(calls, 1, n - 1), SubSeq(results, 1, n - 1))

\* C15: the documentId runAgent returns is the id in the result of the last
\* create, edit or generate call of the invocation whose result carried a
\* document, over all rounds in execution order; failed calls and other tools
\* leave it, and it is undefined when no result carried a document.
C15_ActiveDocument ==
  agent.pc = "done" =>
    /\ Len(ToolResults(Added)) = Len(agent.executed)
    /\ agent.ret.documentId = LastDocument(agent.executed, ToolResults(Added))

\* C15's case: a document created in one round, then in a later round an edit
\* that fails softly and a call of another tool; the created id is returned.
C15_Witness ==
  /\ agent.pc = "done"
  /\ Len(agent.requests) = 3
  /\ Len(agent.executed) >= 3
  /\ agent.executed[1].function.name = "create_html_document"
  /\ "document" \in DOMAIN ToolResults(Added)[1]
  /\ \E i \in 2..Len(agent.executed) :
       /\ agent.executed[i].function.name = "edit_html_document"
       /\ ToolResults(Added)[i].success = FALSE
       /\ \A j \in (i + 1)..Len(agent.executed) :
            agent.executed[j].function.name = "write_long_term_memory"
  /\ agent.executed[Len(agent.executed)].function.name = "write_long_term_memory"
  /\ agent.ret.documentId = ToolResults(Added)[1].document.id

\* ------------------------------------------------------ concurrent edits

\* An edit_html_document call that reached the editor and has ended.
Edited(call) == call.pc = "done" /\ call.name = "edit_html_document" /\ call.edit.ran
\* One that stored its result.
EditedOk(call) == Edited(call) /\ call.result.success
\* The document an id names now.
DocumentNow(id) == htmlDocumentStorage_get(htmlDocuments, id)
\* The edits of both requests have stored a result for the same document.
BothEdited ==
  /\ EditedOk(exec)
  /\ EditedOk(peer)
  /\ exec.args.documentId = peer.args.documentId

\* An edit worked on the content the document had when the call began, and
\* went through whenever its editor returned.
EditFromContentRead(call) ==
  Edited(call) =>
    /\ call.edit.originalHtml =
         htmlDocumentStorage_get(call.before.htmlDocuments, call.args.documentId).content
    /\ call.edit.ret.ok =>
         /\ call.result.success
         /\ call.result.document.content = call.edit.ret.updatedHtml
         /\ call.edit.ret.patch = generatePatch(call.edit.originalHtml, call.edit.edited)

\* The step in which an edit ends with success leaves its document as the
\* edit returned it.
EditLands(call, ended) ==
  (call.pc = "await_edit" /\ ended.result.success) =>
    htmlDocumentStorage_get(htmlDocuments', ended.args.documentId) = ended.result.document

\* C16: with the edits of two requests interleaved at their generation calls,
\* each edit is computed from the content it read before its own generation
\* call; a waiting edit can always go on, and goes through whatever the other
\* has done meanwhile; every edit that ends with success leaves the document
\* as it returned it, so that once both have ended the document is what one
\* of them returned; the file equals the list.
C16_LastWriteWins ==
  /\ [](/\ htmlDocsFile = htmlDocuments
        /\ EditFromContentRead(exec)
        /\ EditFromContentRead(peer)
        /\ exec.pc = "await_edit" => ENABLED EditReply
        /\ peer.pc = "await_edit" => ENABLED PeerReply
        /\ BothEdited =>
             DocumentNow(exec.args.documentId)
               \in {exec.result.document, peer.result.document})
  /\ [][/\ exec' # exec => EditLands(exec, exec')
        /\ peer' # peer => EditLands(peer, peer')]_vars

\* C16's case: both edits read the same content before either stored, both
\* stored, and the document holds the second request's text, not the first's.
C16_Witness ==
  /\ BothEdited
  /\ exec.edit.originalHtml = peer.edit.originalHtml
  /\ exec.edit.ret.updatedHtml # exec.edit.originalHtml
  /\ peer.edit.ret.updatedHtml # exec.edit.originalHtml
  /\ exec.edit.ret.updatedHtml # peer.edit.ret.updatedHtml
  /\ DocumentNow(exec.args.documentId).content = peer.edit.ret.updatedHtml

\* The assistant turns of a transcript, in order.
RECURSIVE AssistantTurns(_)
AssistantTurns(transcript) ==
  IF transcript = <<>> THEN <<>>
  ELSE (IF transcript[1].role = "assistant" THEN <<transcript[1]>> ELSE <<>>)
         \o AssistantTurns(Tail(transcript))

\* C17: when runAgent returns, the last turn of the transcript is an assistant
\* turn without tool calls, every earlier assistant turn of the invocation
\* asked for at least one, and the message returned is the last turn's content,
\* or 'No response generated' when that content is null or empty.
C17_DoneCondition ==
  agent.pc = "done" =>
    LET turns == AssistantTurns(Added)
        final == Added[Len(Added)]
    IN /\ Len(turns) >= 1
       /\ final = turns[Len(turns)]
       /\ Len(final.tool_calls) = 0
       /\ \A i \in 1..(Len(turns) - 1) : Len(turns[i].tool_calls) >= 1
       /\ agent.ret.message =
            IF final.content \in {JsNull, ""} THEN "No response generated"
            ELSE final.content

\* C17's case: a return after two rounds of tool calls on a turn whose content
\* is empty.
C17_Witness ==
  /\ agent.pc = "done"
  /\ Len(AssistantTurns(Added)) = 3
  /\ Added[Len(Added)].content = ""
  /\ agent.ret.message = "No response generated"

\* The calls of a tool among those the invocation has dispatched.
DispatchedTo(toolName) ==
  {i \in 1..Len(agent.executed) : agent.executed[i].function.name = toolName}

\* What the caller of POST /api/chat gets from the invocation.
Response == ChatResponse(agent.ret)

\* C20: when a request of the loop to the generation capability fails, or the
\* arguments of a tool call cannot be parsed, runAgent raises: its caller gets
\* the error and no message, cost or documentId; the request that failed is not
\* sent again and nothing more of the invocation runs; and the failing step
\* itself touches no store, so that the value written and the documents created
\* by the tool calls dispatched before it are still in the stores.
C20_FailureAborts ==
  /\ [](agent.pc = "failed" =>
          /\ DOMAIN agent.ret = {"error"}
          /\ agent.ret.error \in {"request failed", "SyntaxError"}
          /\ Response.status = 500
          /\ DOMAIN Response.body = {"error"}
          /\ DispatchedTo("write_long_term_memory") # {}
               => /\ memoryData["k1"] = "\"v\""
                  /\ memoryFile = StringifyMemory(memoryData)
          /\ Len(htmlDocuments) = Cardinality(DispatchedTo("create_html_document"))
          /\ Len(htmlDocsFile) = Len(htmlDocuments))
  /\ [](agent.pc \in {"await_model", "tools", "in_tool", "failed"}
          => Len(agent.requests) <= agent.apiCalls + 1)
  /\ [][agent.pc = "failed" => FALSE]_vars
  /\ [][agent'.pc = "failed" =>
          /\ UNCHANGED storeVars
          /\ agent'.requests = agent.requests
          /\ agent'.apiCalls = agent.apiCalls]_vars
  /\ [][(agent.pc = "tools" /\ agent.toolCalls[agent.next].function.arguments = Malformed)
          => agent'.pc = "failed"]_vars

\* C20's case: the loop's second request fails after a round that wrote a
\* value and created a document.
C20_Witness ==
  /\ agent.pc = "failed"
  /\ agent.ret = Raised("request failed")
  /\ agent.apiCalls = 1
  /\ Len(agent.requests) = 2
  /\ memoryData["k1"] = "\"v\""
  /\ Len(htmlDocuments) = 1

\* The turn a reply has just added to the transcript.
NewTurn == agent'.messagesToSend[Len(agent'.messagesToSend)]
\* A reply to the loop's request has arrived and was a response.
Answered == agent.pc = "await_model" /\ agent'.pc # "await_model" /\ agent'.pc # "failed"
\* The loop takes a turn that asks for tool calls.
AnotherRound == \E reply \in LiveToolTurns : ModelReply(reply)

\* C18: when no call fails and the generation capability comes to return a
\* turn without tool calls, runAgent reaches Done; a turn with tool calls never
\* ends the loop, whatever the number of rounds before it, and the loop is
\* ready for one more such turn at every request, so that it has no bound of
\* its own.
C18_Termination ==
  /\ ([](agent.pc # "failed")) => <>(agent.pc = "done")
  /\ [](agent.pc = "await_model" => ENABLED AnotherRound)
  /\ [][Answered => (agent'.pc = "tools" <=> Len(NewTurn.tool_calls) > 0)]_vars
  /\ [][Answered => (agent'.pc = "done" <=> Len(NewTurn.tool_calls) = 0)]_vars

\* C18's case: a return after as many rounds as are followed.
C18_Witness ==
  /\ agent.pc = "done"
  /\ agent.apiCalls = MaxLoopRounds + 1
  /\ Len(agent.executed) = MaxLoopRounds

====
